---- MODULE Spec2Model ----
(***************************************************************************)
(* Model of the webtorrent movie server (src/webtorrent_movie_server/app.py *)
(* and src/video_server/io.py): the upload handler with its temp file,      *)
(* publish step and seed process, the drain thread, the key-value state     *)
(* store and the read/clear endpoints.                                      *)
(*                                                                          *)
(* Scheduling.  Every handler is an `async def` run on the one event loop   *)
(* of the process: a handler keeps the loop from one `await` to the next,   *)
(* and a blocking call made by a handler (the readline of seed_movie)       *)
(* blocks the loop.  `running` is the upload that holds the loop, 0 when    *)
(* the loop is free.  Seed processes and drain threads run beside the loop. *)
(*                                                                          *)
(* Optional values are sequences of length at most one: <<>> is None / an   *)
(* absent key / a missing file, <<v>> is the value v.  Strings that the     *)
(* code inspects (file names, output lines) are sequences of characters.    *)
(***************************************************************************)
EXTENDS Naturals, Sequences, FiniteSets

VARIABLES running, req, files, tmp, store, proc, drain, sentinel, faults, first, due,
          path, out

\* running   the upload that holds the event loop, 0 when the loop is free
\* req       per upload: its place in the handler (pc), the declared name and
\*           the body, the temp file handle (fh), exc_string (exc),
\*           exc_status_code (code), magnet_uri (magnet), the response (resp,
\*           body), whether the request stream is closed, what the final
\*           path and the store's magnetURI held when the request began, and
\*           the error the except clause caught (primary)
\* files     DATA_DIR: the content at each final path
\* tmp       DATA_DIR: the content of each upload's temp file
\* store     app_state: the keys views and magnetURI
\* proc      per upload: its seed process and the lines in its stdout pipe
\* drain     per upload: the drain thread of its seed process
\* sentinel  whether restart.file exists
\* faults    failures of the environment so far
\* first     per seed process: the first marker line it wrote
\* due       the views value at the start, or 0 at the last clear, plus the
\*           add_view requests served since
\* path      the argument of a call of sanitize_path, as sanitize_filepath
\*           returned it
\* out       the value the call returned
vars == <<running, req, files, tmp, store, proc, drain, sentinel, faults, first, due,
          path, out>>

(* ------------------------------- bounds -------------------------------- *)

\* Upload requests made in one behaviour.
MaxUploads == 2
\* Lines the stdout pipe of a seed process holds before a write blocks.
PipeCap == 1
\* Failures of the environment (file system, spawn, stream) in one behaviour.
MaxFaults == 1
\* Cap of the view counter.
MaxViews == 2
\* Longest argument of sanitize_path.
MaxPathLen == 7

Req == 1..MaxUploads

None == <<>>
Some(v) == <<v>>
IsSome(o) == o # <<>>
Val(o) == o[1]

(* ------------------------------- strings ------------------------------- *)

MP4 == <<".", "m", "p", "4">>
GoodName == <<"a">> \o MP4
\* Declared file names: one that ends with ".mp4", one that ends with "mp4"
\* only, one that holds ".mp4" before another suffix.
FileNames == {GoodName, <<"a", "m", "p", "4">>, MP4 \o <<"x">>}

\* Upload bodies, one element per 64 KiB chunk: two of equal size and
\* different bytes, one of another size.
Bodies == {<<1>>, <<2>>, <<1, 1>>}

MarkerPrefix == <<"m", "a", "g", "n", "e", "t", "U", "R", "I", ":", " ">>
OtherLine == <<"x", "\n">>
MarkerA == MarkerPrefix \o <<"a", "\n">>
MarkerB == MarkerPrefix \o <<"b", "\n">>
\* Lines the seeding tool may write.
Lines == {OtherLine, MarkerA, MarkerB}
\* Marker lines with a tab after the first character of the URI, and with two
\* spaces before it.
MarkerTab == MarkerPrefix \o <<"a", "\t", "b", "\n">>
MarkerTwoSpaces == MarkerPrefix \o <<" ", "a", "\n">>

Whitespace == {" ", "\t", "\n", "\r"}

\* str.endswith
EndsWith(s, suffix) ==
    /\ Len(s) >= Len(suffix)
    /\ SubSeq(s, Len(s) - Len(suffix) + 1, Len(s)) = suffix

\* str.startswith
StartsWith(s, prefix) ==
    /\ Len(s) >= Len(prefix)
    /\ SubSeq(s, 1, Len(prefix)) = prefix

RECURSIVE SplitAcc(_, _, _, _)
SplitAcc(s, sep, cur, acc) ==
    IF s = <<>> THEN Append(acc, cur)
    ELSE IF Head(s) = sep THEN SplitAcc(Tail(s), sep, <<>>, Append(acc, cur))
    ELSE SplitAcc(Tail(s), sep, Append(cur, Head(s)), acc)

\* str.split(sep) for a one-character separator
Split(s, sep) == SplitAcc(s, sep, <<>>, <<>>)

RECURSIVE LStrip(_)
LStrip(s) == IF s # <<>> /\ Head(s) \in Whitespace THEN LStrip(Tail(s)) ELSE s

RECURSIVE RStrip(_)
RStrip(s) ==
    IF s # <<>> /\ s[Len(s)] \in Whitespace THEN RStrip(SubSeq(s, 1, Len(s) - 1)) ELSE s

\* str.strip()
Strip(s) == RStrip(LStrip(s))

\* The mp4 check of upload.
IsMp4NoDot(name) == EndsWith(name, <<"m", "p", "4">>)
IsMp4(name) == EndsWith(name, MP4)

\* The marker test of the scan loop.
IsMarker(line) == StartsWith(line, MarkerPrefix)

\* line.split(" ")[1].strip()
ExtractURI(line) == Strip(Split(line, " ")[2])

(* -------------------------------- state -------------------------------- *)

IdleReq ==
    [pc |-> "idle", name |-> <<>>, data |-> <<>>, fh |-> "none", exc |-> "none",
     code |-> 0, magnet |-> None, resp |-> 0, body |-> "none", closed |-> FALSE,
     preFile |-> None, preMagnet |-> None, primary |-> "none"]

NoProc == [st |-> "none", pipe |-> <<>>]

EmptyStore == [views |-> None, magnetURI |-> None]

\* The service started for the first time: an empty data directory.
Init ==
    /\ running = 0
    /\ req = [r \in Req |-> IdleReq]
    /\ files = [n \in FileNames |-> None]
    /\ tmp = [r \in Req |-> None]
    /\ store = EmptyStore
    /\ proc = [r \in Req |-> NoProc]
    /\ drain = [r \in Req |-> "none"]
    /\ sentinel = FALSE
    /\ faults = 0
    /\ first = [r \in Req |-> None]
    /\ due = 0
    /\ path = <<>>
    /\ out = None

\* The service started again: DATA_DIR, app.sqlite in it and restart.file are
\* what an earlier run left.
InitRestart ==
    /\ running = 0
    /\ req = [r \in Req |-> IdleReq]
    /\ \E f \in {None} \cup {Some(b) : b \in Bodies} :
          files = [n \in FileNames |-> IF n = GoodName THEN f ELSE None]
    /\ tmp = [r \in Req |-> None]
    /\ \E v \in {None, Some(1)}, m \in {None, Some(ExtractURI(MarkerB))} :
          store = [views |-> v, magnetURI |-> m]
    /\ proc = [r \in Req |-> NoProc]
    /\ drain = [r \in Req |-> "none"]
    /\ sentinel \in BOOLEAN
    /\ faults = 0
    /\ first = [r \in Req |-> None]
    /\ due = IF store.views = None THEN 0 ELSE store.views[1]
    /\ path = <<>>
    /\ out = None

\* Uploads between their first step and their response.
InFlight == {r \in Req : req[r].pc \notin {"idle", "done"}}

CanFail == faults < MaxFaults

(* ------------------------- upload: app.py 137-173 ----------------------- *)

\* os.path.getsize(final_path) != os.path.getsize(tmp_dest_path), negated
SameSizeAlways(a, b) == TRUE
SameSizeNever(a, b) == FALSE
SameSize(a, b) == Len(a) = Len(b)

\* exc_string after a failed removal of the temp file (line 170)
DeleteError(exc) == "delete"

\* The response built at lines 171-173 from exc_string / exc_status_code.
Respond(q) ==
    IF q.exc # "none"
    THEN [q EXCEPT !.pc = "done", !.resp = q.code, !.body = q.exc]
    ELSE [q EXCEPT !.pc = "done", !.resp = 200, !.body = "uri"]

\* The except clause (lines 160-162), which leads to the await of line 164.
Caught(q, what) == [q EXCEPT !.exc = what, !.code = 500, !.pc = "close", !.primary = what]

\* Lines 138-149: the extension check, then the temp file is opened; the
\* handler yields at its first await.
Upload(r, name, data) ==
    /\ running = 0
    /\ req[r].pc = "idle"
    /\ \A q \in Req : q < r => req[q].pc # "idle"
    /\ LET q == [IdleReq EXCEPT !.name = name, !.data = data,
                                !.preFile = files[name],
                                !.preMagnet = store.magnetURI]
       IN IF ~IsMp4(name)
          THEN /\ req' = [req EXCEPT ![r] = [q EXCEPT !.pc = "done", !.resp = 410,
                                                       !.body = "bad_type"]]
               /\ UNCHANGED <<tmp, faults>>
          ELSE \/ /\ tmp' = [tmp EXCEPT ![r] = Some(<<>>)]
                  /\ req' = [req EXCEPT ![r] = [q EXCEPT !.pc = "read", !.fh = "open"]]
                  /\ UNCHANGED faults
               \/ /\ CanFail
                  /\ faults' = faults + 1
                  /\ req' = [req EXCEPT ![r] = Caught(q, "open")]
                  /\ UNCHANGED tmp
    /\ UNCHANGED <<running, files, store, proc, drain, sentinel, first, due, path, out>>

\* file.read returns b"" (line 150): every chunk of the body has been read
\* and written to the temp file.
ReadDoneAnytime(r) == Len(Val(tmp[r])) <= Len(req[r].data)
ReadDone(r) == Len(Val(tmp[r])) = Len(req[r].data)

\* Lines 150-151: one chunk is read from the request and written to the temp
\* file; the handler yields at the next read.
ReadChunk(r) ==
    /\ running = 0
    /\ req[r].pc = "read"
    /\ ~ReadDone(r)
    /\ \/ /\ tmp' = [tmp EXCEPT ![r] =
                        Some(Append(Val(tmp[r]), req[r].data[Len(Val(tmp[r])) + 1]))]
          /\ UNCHANGED <<req, faults>>
       \/ /\ CanFail
          /\ faults' = faults + 1
          /\ req' = [req EXCEPT ![r] = [Caught(req[r], "write") EXCEPT !.fh = "closed"]]
          /\ UNCHANGED tmp
    /\ UNCHANGED <<running, files, store, proc, drain, sentinel, first, due, path, out>>

\* os.path.exists(final_path) (line 153)
FinalExistsNever(name) == FALSE
FinalExists(name) == files[name] # None

\* Lines 150-158: the read returns b"", the temp file is closed, and the file
\* is renamed to its final path, accepted as a duplicate or refused.  On
\* success the handler goes on into seed_movie without yielding.
Publish(r) ==
    /\ running = 0
    /\ req[r].pc = "read"
    /\ ReadDone(r)
    /\ LET q == [req[r] EXCEPT !.fh = "closed"]
           name == req[r].name
       IN IF ~FinalExists(name)
          THEN \/ /\ files' = [files EXCEPT ![name] = tmp[r]]
                  /\ tmp' = [tmp EXCEPT ![r] = None]
                  /\ req' = [req EXCEPT ![r] = [q EXCEPT !.pc = "spawn"]]
                  /\ running' = r
                  /\ UNCHANGED faults
               \/ /\ CanFail
                  /\ faults' = faults + 1
                  /\ req' = [req EXCEPT ![r] = Caught(q, "rename")]
                  /\ UNCHANGED <<files, tmp, running>>
          ELSE \/ /\ CanFail
                  /\ faults' = faults + 1
                  /\ req' = [req EXCEPT ![r] = Caught(q, "getsize")]
                  /\ UNCHANGED <<files, tmp, running>>
               \/ /\ ~SameSize(Val(files[name]), Val(tmp[r]))
                  /\ req' = [req EXCEPT ![r] = Caught(q, "collision")]
                  /\ UNCHANGED <<files, tmp, running, faults>>
               \/ /\ SameSize(Val(files[name]), Val(tmp[r]))
                  /\ tmp' = [tmp EXCEPT ![r] = None]
                  /\ req' = [req EXCEPT ![r] = [q EXCEPT !.pc = "spawn"]]
                  /\ running' = r
                  /\ UNCHANGED <<files, faults>>
               \/ /\ SameSize(Val(files[name]), Val(tmp[r]))
                  /\ CanFail
                  /\ faults' = faults + 1
                  /\ req' = [req EXCEPT ![r] = Caught(q, "remove")]
                  /\ UNCHANGED <<files, tmp, running>>
    /\ UNCHANGED <<store, proc, drain, sentinel, first, due, path, out>>

(* ----------------------- seed_movie: app.py 102-134 --------------------- *)

\* Lines 105-116: the seeding tool is started with its stdout piped.
Spawn(r) ==
    /\ running = r
    /\ req[r].pc = "spawn"
    /\ \/ /\ proc' = [proc EXCEPT ![r] = [st |-> "running", pipe |-> <<>>]]
          /\ req' = [req EXCEPT ![r].pc = "scan"]
          /\ UNCHANGED <<running, faults>>
       \/ /\ CanFail
          /\ faults' = faults + 1
          /\ req' = [req EXCEPT ![r] = Caught(req[r], "spawn")]
          /\ running' = 0
          /\ UNCHANGED proc
    /\ UNCHANGED <<files, tmp, store, drain, sentinel, first, due, path, out>>

\* process.stdout.readline returns: with a line when the pipe holds one, with
\* "" when it is empty and the writing end is closed; otherwise it blocks.
ReadlineReadyAtExit(p) == proc[p].st = "exited"
ReadlineReady(p) == proc[p].pipe # <<>> \/ proc[p].st = "exited"

\* Lines 117-123: one turn of the scan loop.
ScanLine(r) ==
    /\ running = r
    /\ req[r].pc = "scan"
    /\ ReadlineReady(r)
    /\ IF proc[r].pipe # <<>>
       THEN LET line == Head(proc[r].pipe)
            IN /\ proc' = [proc EXCEPT ![r].pipe = Tail(proc[r].pipe)]
               /\ IF IsMarker(line)
                  THEN /\ req' = [req EXCEPT ![r].magnet = Some(ExtractURI(line)),
                                             ![r].pc = "drain"]
                       /\ store' = [store EXCEPT !.magnetURI = Some(ExtractURI(line))]
                  ELSE UNCHANGED <<req, store>>
       ELSE /\ req' = [req EXCEPT ![r].pc = "drain"]
            /\ UNCHANGED <<proc, store>>
    /\ UNCHANGED <<running, files, tmp, drain, sentinel, faults, first, due, path, out>>

\* assert magnet_uri is not None (line 132)
MagnetAssumed(m) == TRUE
MagnetFound(m) == m # None

\* Lines 127-134 and 159-164: the drain thread is started, the assert is
\* evaluated, seed_movie returns or raises, and the handler yields at
\* `await file.close()`.
StartDrain(r) ==
    /\ running = r
    /\ req[r].pc = "drain"
    /\ drain' = [drain EXCEPT ![r] = "running"]
    /\ req' = [req EXCEPT ![r] = IF MagnetFound(req[r].magnet)
                                 THEN [req[r] EXCEPT !.pc = "close"]
                                 ELSE Caught(req[r], "assert")]
    /\ running' = 0
    /\ UNCHANGED <<files, tmp, store, proc, sentinel, faults, first, due, path, out>>

\* Whether drain_stdout leaves its loop at this line (lines 128-129: never).
DrainStopsAtMarker(line) == IsMarker(line)
DrainStops(line) == FALSE

\* Lines 127-129: one turn of the drain thread's loop.
DrainStep(p) ==
    /\ drain[p] = "running"
    /\ ReadlineReady(p)
    /\ IF proc[p].pipe # <<>>
       THEN /\ proc' = [proc EXCEPT ![p].pipe = Tail(proc[p].pipe)]
            /\ drain' = IF DrainStops(Head(proc[p].pipe))
                        THEN [drain EXCEPT ![p] = "done"] ELSE drain
       ELSE /\ drain' = [drain EXCEPT ![p] = "done"]
            /\ UNCHANGED proc
    /\ UNCHANGED <<running, req, files, tmp, store, sentinel, faults, first, due, path, out>>

(* ------------------ the seeding tool (external process) ----------------- *)

\* The tool writes a line; the write blocks while the pipe is full.
ProcWrite(p, line) ==
    /\ proc[p].st = "running"
    /\ Len(proc[p].pipe) < PipeCap
    /\ proc' = [proc EXCEPT ![p].pipe = Append(proc[p].pipe, line)]
    /\ first' = [first EXCEPT ![p] = IF first[p] = None /\ IsMarker(line)
                                     THEN Some(line) ELSE first[p]]
    /\ UNCHANGED <<running, req, files, tmp, store, drain, sentinel, faults, due, path, out>>

\* The tool exits (or closes its stdout).
ProcExit(p) ==
    /\ proc[p].st = "running"
    /\ proc' = [proc EXCEPT ![p].st = "exited"]
    /\ UNCHANGED <<running, req, files, tmp, store, drain, sentinel, faults, first, due, path, out>>

(* --------------------- upload, finally: app.py 163-173 ------------------ *)

\* Lines 164-173: the request stream is closed, a temp file that still exists
\* is removed, and the response is built.  An exception of file.close() leaves
\* the finally block and the handler: the framework answers 500.
Finish(r) ==
    /\ running = 0
    /\ req[r].pc = "close"
    /\ \/ /\ LET q == [req[r] EXCEPT !.closed = TRUE]
             IN IF tmp[r] # None
                THEN \/ /\ tmp' = [tmp EXCEPT ![r] = None]
                        /\ req' = [req EXCEPT ![r] = Respond(q)]
                        /\ UNCHANGED faults
                     \/ /\ CanFail
                        /\ faults' = faults + 1
                        /\ req' = [req EXCEPT ![r] =
                                      Respond([q EXCEPT !.exc = DeleteError(q.exc), !.code = 500])]
                        /\ UNCHANGED tmp
                ELSE /\ req' = [req EXCEPT ![r] = Respond(q)]
                     /\ UNCHANGED <<tmp, faults>>
       \/ /\ CanFail
          /\ faults' = faults + 1
          /\ req' = [req EXCEPT ![r].pc = "done", ![r].resp = 500, ![r].body = "escaped"]
          /\ UNCHANGED tmp
    /\ UNCHANGED <<running, files, store, proc, drain, sentinel, first, due, path, out>>

(* ------------------ state store and the other endpoints ----------------- *)

ViewsOf(s) == IF IsSome(s.views) THEN Val(s.views) ELSE 0

\* app_state.atomic_add(key "views", delta)
AtomicAddOverwrite(s, delta) == [s EXCEPT !.views = Some(delta)]
AtomicAddNoInsert(s, delta) == IF IsSome(s.views) THEN [s EXCEPT !.views = Some(Val(s.views) + delta)] ELSE s
AtomicAdd(s, delta) == [s EXCEPT !.views = Some(ViewsOf(s) + delta)]

\* app_state.clear()
StoreClearMagnetOnly(s) == [s EXCEPT !.magnetURI = None]
StoreClear(s) == EmptyStore

\* Lines 176-186: GET /accessMagnetURI.
AddView(add_view) ==
    /\ running = 0
    /\ IF add_view
       THEN /\ ViewsOf(store) < MaxViews
            /\ store' = AtomicAdd(store, 1)
            /\ due' = due + 1
       ELSE UNCHANGED <<store, due>>
    /\ UNCHANGED <<running, req, files, tmp, proc, drain, sentinel, faults, first, path, out>>

\* Lines 189-202: GET /info.
ApiInfo ==
    /\ running = 0
    /\ UNCHANGED vars

\* Lines 205-210: GET /stats.
ApiViews ==
    /\ running = 0
    /\ UNCHANGED vars

\* Lines 213-225: GET /clear.
Clear ==
    /\ running = 0
    /\ store' = StoreClear(store)
    /\ sentinel' = TRUE
    /\ due' = 0
    /\ UNCHANGED <<running, req, files, tmp, proc, drain, faults, first, path, out>>

(* ------------------ sanitize_path: video_server/io.py 8-54 -------------- *)

\* Characters of the arguments: a letter, the underscore, and two of the
\* characters the replace chain turns into underscores.
PathChars == {"a", "_", ".", " "}

\* What str(sanitize_filepath(path)) may be: the strings of bounded length.
Paths == UNION {[1..n -> PathChars] : n \in 0..MaxPathLen}

\* The characters of the chain of .replace(c, "_") calls (lines 13-48).
Replaced == {" ", "/", "\\", ".", "-", ",", ":", ";", "(", ")", "[", "]", "{", "}",
             "<", ">", "?", "!", "@", "#", "$", "%", "^", "&", "*", "+", "=", "|",
             "~", "`", "'", "\"", "\t", "\n", "\r"}

\* Lines 12-48: every replaced character becomes "_".
ReplaceChain(s) == [i \in 1..Len(s) |-> IF s[i] \in Replaced THEN "_" ELSE s[i]]

\* Lines 50-51: while len(out) > 4 and out[-1] == "_": out = out[:-1]
RECURSIVE StripTrailing(_)
StripTrailing(s) ==
    IF Len(s) > 4 /\ s[Len(s)] = "_" THEN StripTrailing(SubSeq(s, 1, Len(s) - 1)) ELSE s

\* "__" in out
HasDouble(s) == \E i \in 1..(Len(s) - 1) : s[i] = "_" /\ s[i + 1] = "_"

\* out.replace("__", "_"): the occurrences from the left, not overlapping
RECURSIVE ReplaceDouble(_)
ReplaceDouble(s) ==
    IF Len(s) < 2 THEN s
    ELSE IF s[1] = "_" /\ s[2] = "_"
         THEN <<"_">> \o ReplaceDouble(SubSeq(s, 3, Len(s)))
         ELSE <<s[1]>> \o ReplaceDouble(Tail(s))

\* Lines 52-53: while len(out) > 4 and "__" in out: out = out.replace("__", "_")
CollapseOnce(s) == IF Len(s) > 4 /\ HasDouble(s) THEN ReplaceDouble(s) ELSE s
RECURSIVE Collapse(_)
Collapse(s) == IF Len(s) > 4 /\ HasDouble(s) THEN Collapse(ReplaceDouble(s)) ELSE s

\* sanitize_path, from the result of sanitize_filepath on.
SanitizePath(s) == Collapse(StripTrailing(ReplaceChain(s)))

\* A call of sanitize_path returns.
Sanitize ==
    /\ out = None
    /\ out' = Some(SanitizePath(path))
    /\ UNCHANGED <<running, req, files, tmp, store, proc, drain, sentinel, faults, first,
                   due, path>>

\* sanitize_path is called with any path.
InitSanitize ==
    /\ running = 0
    /\ req = [r \in Req |-> IdleReq]
    /\ files = [n \in FileNames |-> None]
    /\ tmp = [r \in Req |-> None]
    /\ store = EmptyStore
    /\ proc = [r \in Req |-> NoProc]
    /\ drain = [r \in Req |-> "none"]
    /\ sentinel = FALSE
    /\ faults = 0
    /\ first = [r \in Req |-> None]
    /\ due = 0
    /\ path \in Paths
    /\ out = None

NextSanitize == Sanitize

SpecSanitize == InitSanitize /\ [][NextSanitize]_vars

(* ----------------------------- specifications --------------------------- *)

\* The steps of the uploads in flight, of the seed processes and of the
\* drain threads.
Steps ==
    \/ \E r \in Req : ReadChunk(r)
    \/ \E r \in Req : Publish(r)
    \/ \E r \in Req : Spawn(r)
    \/ \E r \in Req : ScanLine(r)
    \/ \E r \in Req : StartDrain(r)
    \/ \E r \in Req : Finish(r)
    \/ \E p \in Req, line \in Lines : ProcWrite(p, line)
    \/ \E p \in Req : ProcExit(p)
    \/ \E p \in Req : DrainStep(p)

\* The handlers without an await.
Gets ==
    \/ \E add_view \in BOOLEAN : AddView(add_view)
    \/ ApiInfo
    \/ ApiViews
    \/ Clear

Next ==
    \/ \E r \in Req, name \in FileNames, data \in Bodies : Upload(r, name, data)
    \/ Steps
    \/ Gets

\* First start, concurrent uploads.
Spec == Init /\ [][Next]_vars

\* Two uploads in flight together, with their seed processes and drain
\* threads.
NextPair ==
    \/ \E r \in {1, 2}, name \in FileNames, data \in Bodies : Upload(r, name, data)
    \/ Steps

SpecPair == Init /\ [][NextPair]_vars

\* Two uploads, one after the other, with their seed processes and drain
\* threads.
NextTwice ==
    \/ /\ InFlight = {}
       /\ \E r \in {1, 2}, name \in FileNames, data \in Bodies : Upload(r, name, data)
    \/ Steps

SpecTwice == Init /\ [][NextTwice]_vars

\* One upload, served beside the handlers without an await, by a service
\* started over the data directory of an earlier run.
NextOne ==
    \/ \E name \in FileNames, data \in Bodies : Upload(1, name, data)
    \/ Steps
    \/ Gets

SpecOne == InitRestart /\ [][NextOne]_vars

\* One upload and the handlers without an await, one after the other, by a
\* service started over the data directory of an earlier run.
NextOneSeq ==
    \/ \E name \in FileNames, data \in Bodies : Upload(1, name, data)
    \/ Steps
    \/ /\ InFlight = {}
       /\ Gets

SpecOneSeq == InitRestart /\ [][NextOneSeq]_vars

\* The thread blocked in readline (the handler's in the scan loop, the drain
\* thread) runs once a line or the end of the stream is there, and a handler
\* that holds the loop goes on to its next statement.
Fairness ==
    \A r \in Req :
        /\ WF_vars(ScanLine(r))
        /\ WF_vars(StartDrain(r))
        /\ WF_vars(DrainStep(r))

\* One upload, its seed process and its drain thread, fairly scheduled.
NextSeed ==
    \/ \E name \in FileNames, data \in Bodies : Upload(1, name, data)
    \/ Steps

SpecSeedFair == Init /\ [][NextSeed]_vars /\ Fairness

\* One upload whose seeding tool also writes marker lines with other
\* whitespace than one space and the line end.
NextScan ==
    \/ NextSeed
    \/ \E p \in Req, line \in {MarkerTab, MarkerTwoSpaces} : ProcWrite(p, line)

SpecScan == Init /\ [][NextScan]_vars

(* -------------------------------- claims -------------------------------- *)

Done(r) == req[r].pc = "done"

\* Bodies of the responses that report a failure of the environment.
FaultBodies == {"open", "write", "rename", "getsize", "remove", "spawn", "delete", "escaped"}

\* The URI of the first marker line the seed process of r wrote, if any.
FirstURI(r) == IF IsSome(first[r]) THEN Some(ExtractURI(Val(first[r]))) ELSE None

\* C1 as stated: an upload under the name of a published file whose bytes
\* differ from the upload's ends with status 500, spawns no seed process and
\* leaves the published file as it was.
C1_DifferentBytesRefused ==
    \A r \in Req :
        (Done(r) /\ IsSome(req[r].preFile) /\ Val(req[r].preFile) # req[r].data)
        => /\ req[r].resp = 500
           /\ proc[r].st = "none"
           /\ files[req[r].name] = req[r].preFile

\* C1 amended: an upload under the name of a published file whose size
\* differs from the upload's ends with status 500 (the collision error, or the
\* failure of the file system or of the request stream that took its place),
\* spawns no seed process and leaves the published file as it was.
C1_DifferentSizeRefused ==
    \A r \in Req :
        (Done(r) /\ IsSome(req[r].preFile)
                 /\ Len(Val(req[r].preFile)) # Len(req[r].data))
        => /\ req[r].resp = 500
           /\ req[r].body \in {"collision", "open", "write", "getsize", "delete", "escaped"}
           /\ (faults = 0 => req[r].body = "collision")
           /\ proc[r].st = "none"
           /\ files[req[r].name] = req[r].preFile

C1_Witness ==
    \E r \in Req :
        /\ Done(r)
        /\ IsSome(req[r].preFile)
        /\ Len(Val(req[r].preFile)) # Len(req[r].data)
        /\ req[r].body = "collision"
        /\ tmp[r] = None

\* The second of two uploads of the same bytes under the same name, the
\* first answered 200, the second free of environment failures and served by a
\* tool that wrote a marker line.
SecondOfTwo(r1, r2) ==
    /\ r1 < r2
    /\ Done(r1)
    /\ Done(r2)
    /\ EndsWith(req[r1].name, MP4)
    /\ req[r2].name = req[r1].name
    /\ req[r2].data = req[r1].data
    /\ req[r1].resp = 200
    /\ req[r2].body \notin FaultBodies
    /\ (proc[r2].st = "none" \/ IsSome(first[r2]))

\* C2: two uploads served one after the other; the second of two uploads of the
\* same bytes under the same name is answered 200 like the first, leaves the
\* published file as the first left it and no temp file, spawns a seed process
\* of its own and writes the magnetURI of its own marker line to the store.
C2_SameBytesTwice ==
    /\ [](\A r1, r2 \in Req :
            SecondOfTwo(r1, r2)
            => /\ req[r2].resp = 200
               /\ req[r2].body = "uri"
               /\ req[r2].preFile = Some(req[r1].data)
               /\ files = [n \in FileNames |->
                             IF n = req[r1].name THEN Some(req[r1].data) ELSE None]
               /\ tmp[r1] = None
               /\ tmp[r2] = None
               /\ proc[r1].st # "none"
               /\ proc[r2].st # "none"
               /\ req[r2].magnet = FirstURI(r2))
    /\ [][\A r \in Req :
            (req[r].magnet = None /\ req'[r].magnet # None)
            => store'.magnetURI = req'[r].magnet]_vars

C2_Witness ==
    \E r1, r2 \in Req :
        /\ SecondOfTwo(r1, r2)
        /\ req[r2].resp = 200
        /\ req[r2].magnet # req[r1].magnet
        /\ store.magnetURI = req[r2].magnet

\* C3 as stated: once an upload that passed the extension check is answered,
\* its temp file does not exist, unless the removal of the temp file failed.
C3_NoTempAfterResponse ==
    \A r \in Req :
        (Done(r) /\ EndsWith(req[r].name, MP4) /\ req[r].body # "delete")
        => tmp[r] = None

\* C4: the step that takes up an upload whose name does not end with ".mp4"
\* answers 410 and changes neither the files, the processes nor the store;
\* such a request never owns a temp file or a seed process.
C4_RejectedBeforeAnyEffect ==
    /\ [][\A r \in Req :
            (req[r].pc = "idle" /\ req'[r].pc # "idle" /\ ~EndsWith(req'[r].name, MP4))
            => /\ req'[r].pc = "done"
               /\ req'[r].resp = 410
               /\ UNCHANGED <<files, tmp, store, proc, drain, sentinel>>]_vars
    /\ [](\A r \in Req :
            (req[r].pc # "idle" /\ ~EndsWith(req[r].name, MP4))
            => /\ Done(r)
               /\ req[r].resp = 410
               /\ tmp[r] = None
               /\ proc[r].st = "none"
               /\ drain[r] = "none"
               /\ req[r].magnet = None)

C4_Witness ==
    \E r \in Req :
        /\ Done(r)
        /\ req[r].resp = 410
        /\ req[r].name = <<"a", "m", "p", "4">>
        /\ IsSome(files[GoodName])
        /\ IsSome(store.magnetURI)
        /\ IsSome(store.views)

\* C5: once the seed process has written a marker line, seed_movie
\* eventually returns the URI of the first such line, whether or not the
\* process ever exits; the step in which it returns leaves the process as it
\* is and the drain thread running.
C5_ReturnsAtFirstMarker ==
    /\ \A r \in Req :
          IsSome(first[r])
          ~> /\ req[r].pc \in {"close", "done"}
             /\ req[r].exc = "none"
             /\ req[r].magnet = FirstURI(r)
    /\ [][\A r \in Req :
            (req[r].pc = "drain" /\ req'[r].pc = "close")
            => /\ proc'[r] = proc[r]
               /\ drain'[r] = "running"]_vars

C5_Witness ==
    \E r \in Req :
        /\ Done(r)
        /\ req[r].resp = 200
        /\ req[r].magnet = FirstURI(r)
        /\ proc[r].st = "running"
        /\ proc[r].pipe # <<>>
        /\ drain[r] = "running"

\* C6: requests served one after the other; an upload whose seed process
\* closed its stdout without a marker line is answered 500 (the assertion of
\* seed_movie, or an exception of the stream's close), holds no URI, and while
\* it is in flight and its process has written no marker line the store's
\* magnetURI stays what it was when the request began.
C6_NoMarkerFails ==
    /\ [](\A r \in Req :
            (Done(r) /\ proc[r].st # "none" /\ first[r] = None)
            => /\ req[r].resp = 500
               /\ req[r].body \in {"assert", "escaped"}
               /\ req[r].magnet = None
               /\ proc[r].st = "exited"
               /\ proc[r].pipe = <<>>)
    /\ [][\A r \in Req :
            (r \in InFlight /\ first'[r] = None)
            => store'.magnetURI = req[r].preMagnet]_vars

C6_Witness ==
    \E r \in Req :
        /\ Done(r)
        /\ req[r].body = "assert"
        /\ first[r] = None
        /\ IsSome(req[r].preMagnet)
        /\ store.magnetURI = req[r].preMagnet

\* C7: once the scan loop has stopped at a marker line, a full pipe is
\* eventually read from, so the seed process is not blocked for ever; while
\* the drain thread runs, a pipe that holds lines is read from by the thread
\* again and again (the pipe is first-in first-out, so every line is reached)
\* unless it is empty again and again; the drain
\* thread ends once the stream is at its end, and only then.
C7_DrainKeepsReading ==
    /\ \A p \in Req :
          (IsSome(req[p].magnet) /\ Len(proc[p].pipe) = PipeCap)
          ~> Len(proc[p].pipe) < PipeCap
    /\ \A p \in Req :
          \/ []<>(drain[p] # "running" \/ proc[p].pipe = <<>>)
          \/ []<><<DrainStep(p)>>_vars
    /\ \A p \in Req :
          (drain[p] = "running" /\ proc[p].st = "exited") ~> drain[p] = "done"
    /\ [](\A p \in Req :
            drain[p] = "done" => (proc[p].st = "exited" /\ proc[p].pipe = <<>>))

C7_Witness ==
    \E p \in Req :
        /\ Done(p)
        /\ IsSome(req[p].magnet)
        /\ drain[p] = "running"
        /\ proc[p].st = "running"
        /\ Len(proc[p].pipe) = PipeCap
        /\ IsMarker(proc[p].pipe[1])

\* C8: the stored views value is the value at the start (or 0 after a clear,
\* a missing key counting as 0) plus the number of GET /accessMagnetURI
\* requests with add_view=true served since, whatever the upload in flight
\* does meanwhile; the key exists once one was served.
C8_NoLostView ==
    /\ ViewsOf(store) = due
    /\ (due > 0 => store.views = Some(due))
    /\ (due = 0 => store.views = None)

C8_Witness ==
    /\ due = 2
    /\ store.views = Some(2)
    /\ InFlight # {}

\* C9: a step of GET /clear leaves a store without the keys views and
\* magnetURI, and the restart sentinel file in place.
C9_ClearEmptiesStore ==
    [][Clear => /\ store'.views = None
                /\ store'.magnetURI = None
                /\ sentinel']_vars

C9_Witness ==
    /\ sentinel
    /\ store.views = None
    /\ store.magnetURI = None
    /\ \E r \in Req : Done(r) /\ req[r].resp = 200

\* C10 as stated: a request has written magnetURI only when its drain thread
\* has been started, and an answered request has written a URI exactly when it
\* is answered 200 with that URI.
C10_WrittenAfterSeedSucceeded ==
    \A r \in Req :
        /\ IsSome(req[r].magnet) => drain[r] # "none"
        /\ Done(r) => (IsSome(req[r].magnet) <=> (req[r].resp = 200 /\ req[r].body = "uri"))

(* ------------------------------------------------------------------------ *)

\* The step of r from the chunk loop on: rename, duplicate check or failure.
PublishStep(r) == req[r].pc = "read" /\ req'[r].pc # "read" /\ req'[r].exc # "write"

\* C11: under every interleaving of concurrent uploads, the content at a final
\* path is set only where no file was, by the rename of one upload, and is
\* never changed afterwards; an upload that finds the name taken leaves the
\* files as they are and is resolved by the size comparison: it goes on to
\* seed exactly when the sizes agree, and is refused with the collision error
\* when they differ (unless the size query or the temp removal failed).
C11_PublishedOnce ==
    /\ [][\A n \in FileNames :
            /\ files[n] # None => files'[n] = files[n]
            /\ files'[n] # files[n] =>
                  \E r \in Req : /\ PublishStep(r)
                                  /\ req[r].name = n
                                  /\ files'[n] = tmp[r]
                                  /\ \A q \in Req \ {r} : req'[q] = req[q]]_vars
    /\ [][\A r \in Req :
            (PublishStep(r) /\ files[req[r].name] # None)
            => /\ files' = files
               /\ \/ /\ req'[r].pc = "spawn"
                     /\ SameSize(Val(files[req[r].name]), Val(tmp[r]))
                  \/ /\ req'[r].exc = "collision"
                     /\ ~SameSize(Val(files[req[r].name]), Val(tmp[r]))
                  \/ req'[r].exc \in {"getsize", "remove"}]_vars

\* Two uploads of one name were in flight together, with different bodies;
\* the first to finish its chunks was published, the other found the name
\* taken.
C11_Witness ==
    /\ req[1].name = GoodName /\ req[2].name = GoodName
    /\ req[1].data # req[2].data
    /\ req[2].preFile = None
    /\ files[GoodName] = Some(req[2].data)
    /\ req[1].pc = "done" /\ req[1].exc = "collision"
    /\ req[2].pc = "done" /\ req[2].resp = 200

\* C12 as stated: an upload that passed the extension check is answered by
\* the handler itself: with 200, or with the plain-text 500 built from
\* exc_string whenever a step of the ingest path failed; no exception leaves
\* the handler.
C12_NoExceptionEscapes ==
    \A r \in Req :
        (Done(r) /\ IsMp4(req[r].name))
        => /\ req[r].body # "escaped"
           /\ req[r].resp \in {200, 500}
           /\ req[r].resp = 500 <=> req[r].exc # "none"
           /\ req[r].body = (IF req[r].exc # "none" THEN req[r].exc ELSE "uri")

\* The removal of r's temp file in the cleanup step failed: the stream was
\* closed, the request is answered and the temp file is still there.
CleanupFailed(r) == Done(r) /\ req[r].closed /\ tmp[r] # None

\* C13 as stated: when the except clause caught an error and the removal of
\* the temp file in the cleanup step failed too, the 500 response reports the
\* caught error; the published file and the stored magnetURI are as they were
\* before the cleanup.
C13_PrimaryErrorReported ==
    \A r \in Req :
        (CleanupFailed(r) /\ req[r].primary # "none")
        => /\ req[r].resp = 500
           /\ req[r].body = req[r].primary
           /\ IsSome(req[r].preFile) => files[req[r].name] = req[r].preFile

\* Upload r waits in the scan loop for a seed process that runs and has
\* written nothing it has not read.
ScanBlocked(r) == req[r].pc = "scan" /\ ~ReadlineReady(r)

\* C14 as stated: while an upload waits in the scan loop, the read endpoints
\* can be served, and every other upload can take its next step: begin, read
\* a chunk, publish, or close and respond.
C14_OthersProgressDuringScan ==
    \A r \in Req :
        ScanBlocked(r)
        => /\ ENABLED AddView(FALSE)
           /\ ENABLED ApiViews
           /\ ENABLED ApiInfo
           /\ \A q \in Req \ {r} :
                 /\ req[q].pc = "read" => ENABLED (ReadChunk(q) \/ Publish(q))
                 /\ req[q].pc = "close" => ENABLED Finish(q)
                 /\ (req[q].pc = "idle" /\ \A o \in Req : o < q => req[o].pc # "idle")
                    => ENABLED Upload(q, GoodName, <<1>>)

\* C15: the stored views value is absent or a natural number; a step changes
\* it only as GET /accessMagnetURI with add_view=true does, to one more than
\* it was (a missing key counting as 0), or as GET /clear does, to absent;
\* every add_view=true request adds one; the steps of an upload and the other
\* GET handlers leave it as it is.
C15_ViewsMonotonic ==
    /\ [](store.views = None \/ Val(store.views) \in Nat)
    /\ [][/\ (store'.views # store.views)
             => \/ (AddView(TRUE) /\ store'.views = Some(ViewsOf(store) + 1))
                \/ (Clear /\ store'.views = None)
          /\ (due' = due + 1) => (store'.views = Some(ViewsOf(store) + 1))
          /\ (req' # req) => (store'.views = store.views)]_vars

\* An upload was answered 200, then the store was cleared, then two views
\* were added.
C15_Witness ==
    /\ Done(1) /\ req[1].resp = 200
    /\ store.magnetURI = None
    /\ store.views = Some(2)
    /\ due = 2

\* C16: whatever string the base step returned, the value sanitize_path
\* returns, when longer than 4 characters, does not end with "_" and holds no
\* two "_" in a row.
C16_NoTrailingNoDouble ==
    (IsSome(out) /\ Len(Val(out)) > 4)
    => /\ Val(out)[Len(Val(out))] # "_"
       /\ ~HasDouble(Val(out))

\* A call whose argument holds two replaced characters in a row and ends with
\* an underscore: both loops ran and the result is longer than 4 characters.
C16_Witness ==
    /\ path = <<"a", ".", " ", "a", "a", "a", "_">>
    /\ out = Some(<<"a", "_", "a", "a", "a">>)

\* The part of a marker line after "magnetURI: ".
AfterPrefix(line) == SubSeq(line, Len(MarkerPrefix) + 1, Len(line))

\* The characters of s before its first whitespace character.
RECURSIVE UpToWhitespace(_)
UpToWhitespace(s) ==
    IF s = <<>> \/ Head(s) \in Whitespace THEN <<>>
    ELSE <<Head(s)>> \o UpToWhitespace(Tail(s))

\* C17 as stated: the URI seed_movie has extracted is the part of the first
\* marker line after the prefix, up to its first whitespace character.
C17_UpToFirstWhitespace ==
    \A r \in Req :
        IsSome(req[r].magnet)
        => /\ IsSome(first[r])
           /\ req[r].magnet = Some(UpToWhitespace(AfterPrefix(Val(first[r]))))

\* C18 as stated: when an upload is answered, with 200, 410 or 500, its
\* request stream has been closed and its temp file handle is not open.
C18_ResourcesReleased ==
    \A r \in Req :
        Done(r) => (req[r].closed /\ req[r].fh # "open")

\* C19: a final path only ever holds the whole body of an upload of that
\* name, put there in one step; an upload reaches the spawn of the seeding
\* tool only from the end of its chunk loop, by the rename of its complete
\* temp file onto a free name or by the size comparison against the file
\* already there; the tool is started only by an upload at that spawn, so a
\* request that owns a seed process has a complete file at its final path
\* and no temp file.
C19_SeedOnlyCompleteFiles ==
    /\ [](\A n \in FileNames :
            IsSome(files[n])
            => \E r \in Req : req[r].name = n /\ files[n] = Some(req[r].data))
    /\ [](\A r \in Req :
            proc[r].st # "none"
            => /\ IsSome(files[req[r].name])
               /\ SameSize(Val(files[req[r].name]), req[r].data)
               /\ tmp[r] = None)
    /\ [][\A r \in Req :
            (req'[r].pc = "spawn" /\ req[r].pc # "spawn")
            => /\ req[r].pc = "read"
               /\ tmp[r] = Some(req[r].data)
               /\ \/ /\ files[req[r].name] = None
                     /\ files'[req[r].name] = tmp[r]
                  \/ /\ IsSome(files[req[r].name])
                     /\ SameSize(Val(files[req[r].name]), Val(tmp[r]))
                     /\ files' = files]_vars
    /\ [][\A r \in Req :
            (proc'[r].st # "none" /\ proc[r].st = "none") => req[r].pc = "spawn"]_vars

\* Two uploads of one name and one body were in flight together; one was
\* renamed onto the final path, the other accepted as its duplicate, and both
\* have started a seed process.
C19_Witness ==
    /\ req[1].name = GoodName /\ req[2].name = GoodName
    /\ req[1].preFile = None /\ req[2].preFile = None
    /\ files[GoodName] = Some(<<1, 1>>)
    /\ proc[1].st # "none" /\ proc[2].st # "none"

====
